---- MODULE Spec2Model ----
(***************************************************************************)
(* A model of craft-a-language: the reference resolver and the tree-walking *)
(* interpreter of the l01 library (ref_resolver.rs, interpreter.rs), and   *)
(* the character-stream lexer of l02 (l02/src/main.rs).                    *)
(*                                                                         *)
(* Strings whose content matters (source text, token text, arguments,      *)
(* output lines) are sequences of one-character strings.  A binding        *)
(* (Option<NonNull<FunctionDecl>>) is the index in Prog.stmts of the        *)
(* declaration pointed to, or NoDef for None.                              *)
(***************************************************************************)
EXTENDS Integers, Sequences, FiniteSets, TLC

VARIABLES
    prog,       \* Prog.stmts: the statements of the program, in source order
    resolved,   \* what the latest RefResolver::resolve returned
    before,     \* the program and the result the latest resolve started from
    ran,        \* what Interpreter::run returned
    stdout,     \* the lines written by println!, in order
    code,       \* the source text Tokenizer::new was given
    stream,     \* Tokenizer.stream: the CharStream (unread text, line, col)
    eof,        \* Tokenizer.eof
    emitted,    \* the tokens next_token has returned so far, in order
    ret,        \* what the latest next_token call did
    tokens,     \* Tokenizer.tokens of l01/src/main.rs: the token vector
    pos,        \* Tokenizer.pos of l01/src/main.rs: the cursor in the vector
    parsed,     \* what parse_prog of the backtracking parser returned
    lookahead   \* what parse_prog of the lookahead parser returned on tokens

vars ==
    <<prog, resolved, before, ran, stdout, code, stream, eof, emitted, ret,
      tokens, pos, parsed, lookahead>>

progVars == <<prog, resolved, before, ran, stdout>>
lexVars == <<code, stream, eof, emitted, ret>>
parseVars == <<tokens, pos, parsed, lookahead>>

-----------------------------------------------------------------------------
(* Bounds *)

\* the number of AST nodes (declarations and calls) of a program
MaxNodes == 5
\* the depth of nested run_call frames the stack holds before it overflows
MaxDepth == 4
\* the length of a source text of mixed characters
MaxMixed == 3
\* the length of a source text of operator characters
MaxText == 4
\* the length of a source text after an opening quote
MaxLiteral == 5
\* the length of a source text of comment characters
MaxComment == 6
MaxIdent == 4
MaxTokens == 10
MaxJunk == 2

-----------------------------------------------------------------------------
(* Sequences *)

Last(s) == s[Len(s)]

RECURSIVE Concat(_)
Concat(ss) == IF ss = <<>> THEN <<>> ELSE Head(ss) \o Concat(Tail(ss))

-----------------------------------------------------------------------------
(* The AST: grammar.rs, prog.rs *)

NoDef == 0

FunctionCall(name, parameters) ==
    [kind |-> "FunctionCall", name |-> name, parameters |-> parameters,
     definition |-> NoDef]

FunctionBody(calls) == calls

FunctionDecl(name, body) ==
    [kind |-> "FunctionDecl", name |-> name, body |-> body]

IsDecl(x) == x.kind = "FunctionDecl"
IsCall(x) == x.kind = "FunctionCall"

-----------------------------------------------------------------------------
(* Results *)

NotCalled == [tag |-> "NotCalled"]
Ok == [tag |-> "Ok"]
Err(message) == [tag |-> "Err", message |-> message]
\* the process aborted: the stack of run_call frames overflowed
StackOverflow == [tag |-> "StackOverflow"]

IsErr(r) == r.tag = "Err"

-----------------------------------------------------------------------------
(* RefResolver: ref_resolver.rs *)

\* Insert, but an insert of a key already present is dropped
InsertKeepsFirst(functions, name, ptr) ==
    [n \in DOMAIN functions \cup {name} |->
        IF n \in DOMAIN functions THEN functions[n] ELSE ptr]

\* HashMap::insert: a later insert of the same key overwrites
Insert(functions, name, ptr) ==
    [n \in DOMAIN functions \cup {name} |->
        IF n = name THEN ptr ELSE functions[n]]

\* pass 1: the index of the declarations, name -> pointer to the declaration
RECURSIVE IndexDecls(_, _, _)
IndexDecls(stmts, i, functions) ==
    IF i > Len(stmts) THEN functions
    ELSE IF IsDecl(stmts[i])
         THEN IndexDecls(stmts, i + 1, Insert(functions, stmts[i].name, i))
         ELSE IndexDecls(stmts, i + 1, functions)

EmptyMap == [n \in {} |-> NoDef]

\* resolve_function_call, but every name that is not declared is let through
resolve_function_call_AnyName(functions, call) ==
    IF call.name \notin DOMAIN functions
    THEN [result |-> Ok, call |-> call]
    ELSE [result |-> Ok,
          call |-> [call EXCEPT !.definition = functions[call.name]]]

\* resolve_function_call, but the built-in is not let through
resolve_function_call_NoBuiltin(functions, call) ==
    IF call.name \notin DOMAIN functions
    THEN [result |-> Err(<<"unkown function ", call.name>>), call |-> call]
    ELSE [result |-> Ok,
          call |-> [call EXCEPT !.definition = functions[call.name]]]

\* resolve_function_call, but a call that is bound already is an error
resolve_function_call_Once(functions, call) ==
    IF call.name \notin DOMAIN functions
    THEN IF call.name = "println"
         THEN [result |-> Ok, call |-> call]
         ELSE [result |-> Err(<<"unkown function ", call.name>>), call |-> call]
    ELSE IF call.definition # NoDef
         THEN [result |-> Err(<<"resolved twice ", call.name>>), call |-> call]
         ELSE [result |-> Ok,
               call |-> [call EXCEPT !.definition = functions[call.name]]]

\* resolve_function_call, but the built-in is looked for before the index
resolve_function_call_BuiltinFirst(functions, call) ==
    IF call.name = "println"
    THEN [result |-> Ok, call |-> call]
    ELSE IF call.name \notin DOMAIN functions
    THEN [result |-> Err(<<"unkown function ", call.name>>), call |-> call]
    ELSE [result |-> Ok,
          call |-> [call EXCEPT !.definition = functions[call.name]]]

resolve_function_call(functions, call) ==
    IF call.name \notin DOMAIN functions
    THEN IF call.name = "println"
         THEN [result |-> Ok, call |-> call]
         ELSE [result |-> Err(<<"unkown function ", call.name>>), call |-> call]
    ELSE [result |-> Ok,
          call |-> [call EXCEPT !.definition = functions[call.name]]]

\* ResolveBody, but the calls of a body are left as they are
ResolveBody_Skipped(functions, body, j) == [result |-> Ok, body |-> body]

\* the calls of one body, from call j on; stops at the first error
RECURSIVE ResolveBody(_, _, _)
ResolveBody(functions, body, j) ==
    IF j > Len(body) THEN [result |-> Ok, body |-> body]
    ELSE LET r == resolve_function_call(functions, body[j])
         IN  IF IsErr(r.result)
             THEN [result |-> r.result, body |-> body]
             ELSE ResolveBody(functions, [body EXCEPT ![j] = r.call], j + 1)

\* pass 2, from statement i on; stops at the first error
RECURSIVE ResolveStmts(_, _, _)
ResolveStmts(functions, stmts, i) ==
    IF i > Len(stmts) THEN [result |-> Ok, stmts |-> stmts]
    ELSE IF IsDecl(stmts[i])
         THEN LET r == ResolveBody(functions, stmts[i].body, 1)
                  s == [stmts EXCEPT ![i].body = r.body]
              IN  IF IsErr(r.result)
                  THEN [result |-> r.result, stmts |-> s]
                  ELSE ResolveStmts(functions, s, i + 1)
         ELSE LET r == resolve_function_call(functions, stmts[i])
              IN  IF IsErr(r.result)
                  THEN [result |-> r.result, stmts |-> stmts]
                  ELSE ResolveStmts(functions, [stmts EXCEPT ![i] = r.call], i + 1)

resolve(stmts) == ResolveStmts(IndexDecls(stmts, 1, EmptyMap), stmts, 1)

-----------------------------------------------------------------------------
(* RefResolver of the binary: l01/src/main.rs *)

\* the single loop of resolve, from statement i on: a declaration enters the
\* index, a top-level call is looked up in the index as it is by then; the
\* calls of a body are not visited
RECURSIVE MainResolveStmts(_, _, _)
MainResolveStmts(functions, stmts, i) ==
    IF i > Len(stmts) THEN [result |-> Ok, stmts |-> stmts]
    ELSE IF IsDecl(stmts[i])
         THEN MainResolveStmts(Insert(functions, stmts[i].name, i), stmts, i + 1)
         ELSE IF stmts[i].name \notin DOMAIN functions
              THEN IF stmts[i].name = "println"
                   THEN MainResolveStmts(functions, stmts, i + 1)
                   ELSE [result |-> Err(<<"unkown name ", stmts[i].name>>),
                         stmts |-> stmts]
              ELSE MainResolveStmts(functions,
                       [stmts EXCEPT ![i].definition = functions[stmts[i].name]],
                       i + 1)

main_resolve(stmts) == MainResolveStmts(EmptyMap, stmts, 1)

-----------------------------------------------------------------------------
(* Interpreter: interpreter.rs *)

\* [String]::join(sep)
RECURSIVE join(_, _)
join(parameters, sep) ==
    IF parameters = <<>> THEN <<>>
    ELSE IF Len(parameters) = 1 THEN parameters[1]
    ELSE parameters[1] \o sep \o join(Tail(parameters), sep)

\* println, but the arguments are written one after the other
println_NoSeparator(out, parameters) == Append(out, join(parameters, <<>>))

\* println!("{}", call.parameters.join(" "))
println(out, parameters) == Append(out, join(parameters, <<" ">>))

\* run_call in a frame at the given depth; out is what was written so far
RECURSIVE run_call(_, _, _, _)
RECURSIVE RunBody(_, _, _, _, _)
\* run_call, but a call too deep in the recursion returns without running
run_call_Guarded(stmts, call, depth, out) ==
    IF depth > MaxDepth THEN [result |-> Ok, out |-> out]
    ELSE IF call.definition = NoDef
    THEN IF call.name = "println"
         THEN [result |-> Ok, out |-> println(out, call.parameters)]
         ELSE [result |-> Err(<<"Unknown function ", call.name>>), out |-> out]
    ELSE RunBody(stmts, stmts[call.definition].body, 1, depth, out)

run_call(stmts, call, depth, out) ==
    IF depth > MaxDepth THEN [result |-> StackOverflow, out |-> out]
    ELSE IF call.definition = NoDef
    THEN IF call.name = "println"
         THEN [result |-> Ok, out |-> println(out, call.parameters)]
         ELSE [result |-> Err(<<"Unknown function ", call.name>>), out |-> out]
    ELSE RunBody(stmts, stmts[call.definition].body, 1, depth, out)

\* the loop over the body of a bound declaration, from call j on
RunBody(stmts, body, j, depth, out) ==
    IF j > Len(body) THEN [result |-> Ok, out |-> out]
    ELSE LET r == run_call(stmts, body[j], depth + 1, out)
         IN  IF r.result # Ok THEN r
             ELSE RunBody(stmts, body, j + 1, depth, r.out)

\* the loop of run over the top-level statements, from statement i on
RECURSIVE RunStmts(_, _, _)
RunStmts(stmts, i, out) ==
    IF i > Len(stmts) THEN [result |-> Ok, out |-> out]
    ELSE IF IsCall(stmts[i])
         THEN LET r == run_call(stmts, stmts[i], 1, out)
              IN  IF r.result # Ok THEN r
                  ELSE RunStmts(stmts, i + 1, r.out)
         ELSE RunStmts(stmts, i + 1, out)

run(stmts) == RunStmts(stmts, 1, <<>>)

-----------------------------------------------------------------------------
(* CharStream: l02/src/main.rs *)

\* Option<char>::None
NoChar == ""

CharStream(data) == [data |-> data, line |-> 1, col |-> 0]

peek(s) == IF s.data = <<>> THEN NoChar ELSE Head(s.data)

\* Iterator::next for CharStream: one character is consumed and counted
advance(s) ==
    IF s.data = <<>> THEN s
    ELSE IF Head(s.data) = "\n"
         THEN [data |-> Tail(s.data), line |-> s.line + 1, col |-> 0]
         ELSE [data |-> Tail(s.data), line |-> s.line, col |-> s.col + 1]

-----------------------------------------------------------------------------
(* Characters *)

Quote == "\""
Backslash == "\\"
Newline == "\n"

Letters ==
    {"a", "b", "c", "d", "e", "f", "g", "h", "i", "j", "k", "l", "m",
     "n", "o", "p", "q", "r", "s", "t", "u", "v", "w", "x", "y", "z",
     "A", "B", "C", "D", "E", "F", "G", "H", "I", "J", "K", "L", "M",
     "N", "O", "P", "Q", "R", "S", "T", "U", "V", "W", "X", "Y", "Z"}
Digits == {"0", "1", "2", "3", "4", "5", "6", "7", "8", "9"}

is_whitespace(c) == c \in {" ", "\t", "\n", "\r", "\f"}
is_alphabetic(c) == c \in Letters
is_alphanumeric(c) == c \in Letters \cup Digits
is_identifier_char(c) == c = "_" \/ is_alphanumeric(c)

Seperators == {"(", ")", "{", "}", ";", ","}

-----------------------------------------------------------------------------
(* Tokens: token.rs *)

Token(kind, text) == [kind |-> kind, text |-> text]
NoToken == Token("None", <<>>)
EOFToken == Token("EOF", <<>>)

-----------------------------------------------------------------------------
(* Tokenizer: l02/src/main.rs *)

\* what one call of next_token does
Some(token, s) == [ret |-> [tag |-> "Some"], token |-> token, stream |-> s, eof |-> FALSE]
None(s) == [ret |-> [tag |-> "None"], token |-> NoToken, stream |-> s, eof |-> TRUE]
\* a panic!, or the unwrap of an Err: the process ends
Panic(message, s) ==
    [ret |-> [tag |-> "Panic", message |-> message], token |-> NoToken,
     stream |-> s, eof |-> FALSE]

RECURSIVE skip_whitespaces(_)
skip_whitespaces(s) ==
    IF peek(s) # NoChar /\ is_whitespace(peek(s))
    THEN skip_whitespaces(advance(s))
    ELSE s

RECURSIVE skip_line(_)
skip_line(s) ==
    IF peek(s) # NoChar /\ peek(s) # Newline
    THEN skip_line(advance(s))
    ELSE s

\* the while loop of skip_block_comment
RECURSIVE SkipBlockCommentLoop(_)
SkipBlockCommentLoop(s) ==
    IF peek(s) = NoChar
    THEN [ok |-> FALSE, message |-> <<"No */ found until EOF">>, stream |-> s]
    ELSE LET c == peek(s)
             s1 == advance(s)
         IN  IF c = "*"
             THEN IF peek(s1) # NoChar
                  THEN IF peek(s1) = "/"
                       THEN [ok |-> TRUE, message |-> <<>>, stream |-> s1]
                       ELSE SkipBlockCommentLoop(s1)
                  ELSE [ok |-> FALSE, message |-> <<"No */ found until EOF">>,
                        stream |-> s1]
             ELSE SkipBlockCommentLoop(s1)

skip_block_comment(s) == SkipBlockCommentLoop(advance(s))

\* the while loop of parse_identifier
RECURSIVE IdentifierLoop(_, _)
IdentifierLoop(s, text) ==
    IF peek(s) # NoChar /\ is_identifier_char(peek(s))
    THEN IdentifierLoop(advance(s), Append(text, peek(s)))
    ELSE [text |-> text, stream |-> s]

parse_identifier(s) ==
    LET r == IdentifierLoop(advance(s), <<peek(s)>>)
    IN  IF r.text = <<"f", "u", "n", "c", "t", "i", "o", "n">>
        THEN Some(Token("Keyword", r.text), r.stream)
        ELSE Some(Token("Identifier", r.text), r.stream)

\* unescape, but a character that is no escape stands for itself
unescape_AnyChar(c) ==
    IF c = "n" THEN [ok |-> TRUE, ch |-> Newline]
    ELSE IF c = NoChar THEN [ok |-> FALSE, ch |-> NoChar]
    ELSE [ok |-> TRUE, ch |-> c]

\* the match on the character after a backslash in parse_string_literal
unescape(c) ==
    IF c = "n" THEN [ok |-> TRUE, ch |-> Newline]
    ELSE IF c = Backslash THEN [ok |-> TRUE, ch |-> Backslash]
    ELSE [ok |-> FALSE, ch |-> NoChar]

\* the while loop of parse_string_literal
RECURSIVE StringLiteralLoop(_, _)
StringLiteralLoop(s, text) ==
    IF peek(s) = NoChar
    THEN [ok |-> FALSE, message |-> <<"Expecting ", Quote, s.line, s.col>>,
          text |-> text, stream |-> s]
    ELSE IF peek(s) = Newline
    THEN [ok |-> FALSE, message |-> <<"Unexpected line break", s.line, s.col>>,
          text |-> text, stream |-> s]
    ELSE IF peek(s) = Backslash
    THEN LET s1 == advance(s)
             e == unescape(peek(s1))
         IN  IF e.ok
             THEN StringLiteralLoop(advance(s1), Append(text, e.ch))
             ELSE [ok |-> FALSE,
                   message |-> <<"Unexpected ", Backslash, s1.line, s1.col>>,
                   text |-> text, stream |-> s1]
    ELSE IF peek(s) = Quote
    THEN [ok |-> TRUE, message |-> <<>>, text |-> text, stream |-> advance(s)]
    ELSE StringLiteralLoop(advance(s), Append(text, peek(s)))

parse_string_literal(s) == StringLiteralLoop(advance(s), <<>>)

\* the arms for '+' and '-': the character is consumed, the next one is peeked
SignOperator(s) ==
    LET op == peek(s)
        s1 == advance(s)
    IN  IF peek(s1) = op THEN Some(Token("Operator", <<op, op>>), s1)
        ELSE IF peek(s1) = "=" THEN Some(Token("Operator", <<op, "=">>), s1)
        ELSE Some(Token("Operator", <<op>>), s1)

\* the arm for '*'
StarOperator(s) ==
    LET s1 == advance(s)
    IN  IF peek(s1) = "=" THEN Some(Token("Operator", <<"*", "=">>), s1)
        ELSE Some(Token("Operator", <<"*">>), s1)

\* the None arm, but the flag is not set
EndOfInput_FlagNotSet(s) == Some(EOFToken, s)

\* the None arm: the flag is set and the EOF token returned
EndOfInput(s) == [Some(EOFToken, s) EXCEPT !.eof = TRUE]

RECURSIVE next_token(_, _)
next_token(s0, eofFlag) ==
    IF eofFlag THEN None(s0)
    ELSE
    LET s == skip_whitespaces(s0)
        ch == peek(s)
    IN  IF ch = NoChar THEN EndOfInput(s)
        ELSE IF ch = Quote
        THEN LET r == parse_string_literal(s)
             IN  IF r.ok THEN Some(Token("StringLiteral", r.text), r.stream)
                 ELSE Panic(r.message, r.stream)
        ELSE IF ch \in Seperators
        THEN Some(Token("Seperator", <<ch>>), advance(s))
        ELSE IF ch \in {"+", "-"} THEN SignOperator(s)
        ELSE IF ch = "*" THEN StarOperator(s)
        ELSE IF ch = "/"
        THEN LET s1 == advance(s)
             IN  IF peek(s1) = "/" THEN next_token(skip_line(s1), FALSE)
                 ELSE IF peek(s1) = "*"
                 THEN LET r == skip_block_comment(s1)
                      IN  IF r.ok THEN next_token(r.stream, FALSE)
                          ELSE Panic(r.message, r.stream)
                 ELSE IF peek(s1) = "="
                 THEN Some(Token("Operator", <<"/", "=">>), s1)
                 ELSE Some(Token("Operator", <<"/">>), s1)
        ELSE IF is_alphabetic(ch) THEN parse_identifier(s)
        ELSE Panic(<<"Invalid token ", ch, s.line, s.col>>, s)

-----------------------------------------------------------------------------
(* Tokenizer of l01/src/main.rs: a cursor p over the token vector *)

\* Tokenizer::new returns a tokenizer: the vector ends with an EOF token
Tokenized(v) == v # <<>> /\ Last(v).kind = "EOF"

tokens_eof(v, p) == p >= Len(v) \/ v[p + 1].kind = "EOF"

\* next, but the cursor moves at the end of the vector too
next_AlwaysMoves(v, p) ==
    IF p >= Len(v) THEN [token |-> Last(v), pos |-> p + 1]
    ELSE [token |-> v[p + 1], pos |-> p + 1]

\* the token returned and the cursor after the call
next(v, p) ==
    IF p >= Len(v) THEN [token |-> Last(v), pos |-> p]
    ELSE [token |-> v[p + 1], pos |-> p + 1]

position(p) == p

\* trace_back, but the cursor stays where it is
trace_back_Ignored(p, new_pos) == p

\* the cursor after trace_back(new_pos)
trace_back(p, new_pos) == IF new_pos > p THEN p ELSE new_pos

-----------------------------------------------------------------------------
(* Parser of l01/src/main.rs: recursive descent with backtracking; a name
   or an argument is the text of its token, a sequence of characters *)

\* DecodeError
TryNext == [tag |-> "TryNext"]
Fatal(message) == [tag |-> "Fatal", message |-> message]

\* no value: the Err side of a Result
Nothing == [kind |-> "None"]

IsSeperator(t, c) == t.kind = "Seperator" /\ t.text = <<c>>

Function == <<"f", "u", "n", "c", "t", "i", "o", "n">>

\* the while loop of parse_function_call: t is the token in hand, p the
\* cursor after it
RECURSIVE ParameterLoop(_, _, _, _)
ParameterLoop(v, t, p, parameters) ==
    IF IsSeperator(t, ")")
    THEN [result |-> Ok, parameters |-> parameters, pos |-> p]
    ELSE IF t.kind # "StringLiteral"
    THEN [result |-> Fatal(<<"expect string parameter '(' but got ", t>>),
          parameters |-> parameters, pos |-> p]
    ELSE LET n == next(v, p)
             m == next(v, n.pos)
         IN  IF ~(IsSeperator(n.token, ",") \/ IsSeperator(n.token, ")"))
             THEN [result |-> Fatal(<<"expect Seperator ',' or ')' but got ", n.token>>),
                   parameters |-> parameters, pos |-> n.pos]
             ELSE ParameterLoop(v,
                                IF IsSeperator(n.token, ",") THEN m.token ELSE n.token,
                                IF IsSeperator(n.token, ",") THEN m.pos ELSE n.pos,
                                Append(parameters, t.text))

\* parse_function_call after its while loop, which returned r: the ";"
CallEnd(v, function_name, r) ==
    LET t == next(v, r.pos)
    IN  IF r.result # Ok
        THEN [result |-> r.result, call |-> Nothing, pos |-> r.pos]
        ELSE IF ~IsSeperator(t.token, ";")
        THEN [result |-> Fatal(<<"expect Seperator ';' but got ", t.token>>),
              call |-> Nothing, pos |-> t.pos]
        ELSE [result |-> Ok,
              call |-> FunctionCall(function_name, r.parameters),
              pos |-> t.pos]

parse_function_call(v, p) ==
    LET old_pos == position(p)
        t1 == next(v, p)
        t2 == next(v, t1.pos)
        t3 == next(v, t2.pos)
    IN  IF t1.token.kind = "Identifier" /\ IsSeperator(t2.token, "(")
        THEN CallEnd(v, t1.token.text, ParameterLoop(v, t3.token, t3.pos, <<>>))
        ELSE [result |-> TryNext, call |-> Nothing,
              pos |-> trace_back(IF t1.token.kind = "Identifier" THEN t2.pos ELSE t1.pos,
                                 old_pos)]

\* the loop of parse_function_body: calls until one answers TryNext
RECURSIVE BodyLoop(_, _, _)
\* the match of one round of the loop on r, what parse_function_call returned
RECURSIVE BodyMatch(_, _, _)
BodyMatch(v, stmts, r) ==
    IF r.result = Ok THEN BodyLoop(v, r.pos, Append(stmts, r.call))
    ELSE IF r.result = TryNext
    THEN [result |-> Ok, stmts |-> stmts, pos |-> r.pos]
    ELSE [result |-> Err(r.result.message), stmts |-> stmts, pos |-> r.pos]

BodyLoop(v, p, stmts) == BodyMatch(v, stmts, parse_function_call(v, p))

\* parse_function_body after its loop, which returned r: the "}"
BodyEnd(v, r) ==
    LET t == next(v, r.pos)
    IN  IF r.result # Ok
        THEN [result |-> r.result, body |-> Nothing, pos |-> r.pos]
        ELSE IF ~IsSeperator(t.token, "}")
        THEN [result |-> Err(<<"expect Seperator '}' but got ", t.token>>),
              body |-> Nothing, pos |-> t.pos]
        ELSE [result |-> Ok, body |-> FunctionBody(r.stmts), pos |-> t.pos]

\* Result<FunctionBody, String>
parse_function_body(v, p) ==
    LET t == next(v, p)
    IN  IF ~IsSeperator(t.token, "{")
        THEN [result |-> Err(<<"expect Seperator '{' but got ", t.token>>),
              body |-> Nothing, pos |-> t.pos]
        ELSE BodyEnd(v, BodyLoop(v, t.pos, <<>>))

\* parse_function_decl after parse_function_body returned b
DeclEnd(function_name, b) ==
    IF b.result # Ok
    THEN [result |-> Fatal(b.result.message), decl |-> Nothing, pos |-> b.pos]
    ELSE [result |-> Ok, decl |-> FunctionDecl(function_name, b.body), pos |-> b.pos]

parse_function_decl(v, p) ==
    LET old_pos == position(p)
        t1 == next(v, p)
        t2 == next(v, t1.pos)
        t3 == next(v, t2.pos)
        t4 == next(v, t3.pos)
    IN  IF t1.token.kind = "Keyword" /\ t1.token.text = Function
        THEN IF t2.token.kind # "Identifier"
             THEN [result |-> Fatal(<<"expect Identifier but got ", t2.token>>),
                   decl |-> Nothing, pos |-> t2.pos]
             ELSE IF ~IsSeperator(t3.token, "(")
             THEN [result |-> Fatal(<<"expect Seperator '(' but got ", t3.token>>),
                   decl |-> Nothing, pos |-> t3.pos]
             ELSE IF ~IsSeperator(t4.token, ")")
             THEN [result |-> Fatal(<<"expect Seperator ')' but got ", t4.token>>),
                   decl |-> Nothing, pos |-> t4.pos]
             ELSE DeclEnd(t2.token.text, parse_function_body(v, t4.pos))
        ELSE [result |-> TryNext, decl |-> Nothing, pos |-> trace_back(t1.pos, old_pos)]

\* SecondAttempt, but the TryNext of parse_function_call is handed on, as
\* the ? operator would
SecondAttempt_Propagating(c) ==
    IF c.result = Ok THEN [result |-> Ok, stmt |-> c.call, pos |-> c.pos]
    ELSE [result |-> c.result, stmt |-> Nothing, pos |-> c.pos]

\* the second match of a round of parse_prog, on what parse_function_call
\* returned, and the return after it
SecondAttempt(c) ==
    IF c.result = Ok THEN [result |-> Ok, stmt |-> c.call, pos |-> c.pos]
    ELSE IF c.result # TryNext
    THEN [result |-> Fatal(c.result.message), stmt |-> Nothing, pos |-> c.pos]
    ELSE [result |-> Fatal(<<"unknown statement">>), stmt |-> Nothing, pos |-> c.pos]

\* the first match of a round of parse_prog, on what parse_function_decl
\* returned
FirstAttempt(v, d) ==
    IF d.result = Ok THEN [result |-> Ok, stmt |-> d.decl, pos |-> d.pos]
    ELSE IF d.result # TryNext
    THEN [result |-> Fatal(d.result.message), stmt |-> Nothing, pos |-> d.pos]
    ELSE SecondAttempt(parse_function_call(v, d.pos))

\* one round of the loop of parse_prog: a declaration is tried, then a call
ParseStatement(v, p) == FirstAttempt(v, parse_function_decl(v, p))

-----------------------------------------------------------------------------
(* Parser of l02/src/main.rs: recursive descent on the peeked token; q is
   the number of tokens the Peekable iterator has handed out *)

\* Option<Token>
l02_peek(v, q) == IF q < Len(v) THEN v[q + 1] ELSE NoToken

l02_next(v, q) ==
    IF q < Len(v) THEN [token |-> v[q + 1], pos |-> q + 1]
    ELSE [token |-> NoToken, pos |-> q]

\* ok_or("invalid token")?
InvalidToken == Err(<<"invalid token">>)

\* the while loop of parse_function_call: t is the token in hand
RECURSIVE l02_ParameterLoop(_, _, _, _)
l02_ParameterLoop(v, t, q, parameters) ==
    IF IsSeperator(t, ")")
    THEN [result |-> Ok, parameters |-> parameters, pos |-> q]
    ELSE IF t.kind # "StringLiteral"
    THEN [result |-> Err(<<"expect string parameter '(' but got ", t>>),
          parameters |-> parameters, pos |-> q]
    ELSE LET n == l02_next(v, q)
             m == l02_next(v, n.pos)
         IN  IF n.token = NoToken
             THEN [result |-> InvalidToken, parameters |-> parameters, pos |-> n.pos]
             ELSE IF ~(IsSeperator(n.token, ",") \/ IsSeperator(n.token, ")"))
             THEN [result |-> Err(<<"expect Seperator ',' or ')' but got ", n.token>>),
                   parameters |-> parameters, pos |-> n.pos]
             ELSE IF IsSeperator(n.token, ",") /\ m.token = NoToken
             THEN [result |-> InvalidToken, parameters |-> parameters, pos |-> m.pos]
             ELSE l02_ParameterLoop(v,
                                    IF IsSeperator(n.token, ",") THEN m.token ELSE n.token,
                                    IF IsSeperator(n.token, ",") THEN m.pos ELSE n.pos,
                                    Append(parameters, t.text))

\* parse_function_call after its while loop, which returned r: the ";"
l02_CallEnd(v, function_name, r) ==
    LET t == l02_next(v, r.pos)
    IN  IF r.result # Ok
        THEN [result |-> r.result, call |-> Nothing, pos |-> r.pos]
        ELSE IF t.token = NoToken
        THEN [result |-> InvalidToken, call |-> Nothing, pos |-> t.pos]
        ELSE IF ~IsSeperator(t.token, ";")
        THEN [result |-> Err(<<"expect Seperator ';' but got ", t.token>>),
              call |-> Nothing, pos |-> t.pos]
        ELSE [result |-> Ok,
              call |-> FunctionCall(function_name, r.parameters),
              pos |-> t.pos]

l02_parse_function_call(v, q) ==
    LET t1 == l02_next(v, q)
        t2 == l02_next(v, t1.pos)
        t3 == l02_next(v, t2.pos)
    IN  IF t1.token = NoToken
        THEN [result |-> [tag |-> "Panic"], call |-> Nothing, pos |-> t1.pos]
        ELSE IF t2.token = NoToken
        THEN [result |-> InvalidToken, call |-> Nothing, pos |-> t2.pos]
        ELSE IF ~IsSeperator(t2.token, "(")
        THEN [result |-> Err(<<"expect Seperator '(' but got ", t2.token>>),
              call |-> Nothing, pos |-> t2.pos]
        ELSE IF t3.token = NoToken
        THEN [result |-> InvalidToken, call |-> Nothing, pos |-> t3.pos]
        ELSE l02_CallEnd(v, t1.token.text, l02_ParameterLoop(v, t3.token, t3.pos, <<>>))

\* the loop of parse_function_body; t is the token parse_function_body read
\* before the loop
RECURSIVE l02_BodyLoop(_, _, _, _)
\* stmts.push(self.parse_function_call()?) on r, what the call returned
RECURSIVE l02_BodyPush(_, _, _, _)
l02_BodyPush(v, t, stmts, r) ==
    IF r.result # Ok
    THEN [result |-> r.result, body |-> Nothing, pos |-> r.pos]
    ELSE l02_BodyLoop(v, t, r.pos, Append(stmts, r.call))

l02_BodyLoop(v, t, q, stmts) ==
    LET token == l02_peek(v, q)
    IN  IF token # NoToken /\ token.kind = "Identifier"
        THEN l02_BodyPush(v, t, stmts, l02_parse_function_call(v, q))
        ELSE IF token # NoToken /\ IsSeperator(token, "}")
        THEN [result |-> Ok, body |-> FunctionBody(stmts), pos |-> l02_next(v, q).pos]
        ELSE [result |-> Err(<<"expect Seperator '}' but got ", t>>),
              body |-> Nothing, pos |-> q]

l02_parse_function_body(v, q) ==
    LET t == l02_next(v, q)
    IN  IF t.token = NoToken
        THEN [result |-> InvalidToken, body |-> Nothing, pos |-> t.pos]
        ELSE IF ~IsSeperator(t.token, "{")
        THEN [result |-> Err(<<"expect Seperator '{' but got ", t.token>>),
              body |-> Nothing, pos |-> t.pos]
        ELSE l02_BodyLoop(v, t.token, t.pos, <<>>)

\* parse_function_decl after parse_function_body returned b
l02_DeclEnd(function_name, b) ==
    IF b.result # Ok
    THEN [result |-> b.result, decl |-> Nothing, pos |-> b.pos]
    ELSE [result |-> Ok, decl |-> FunctionDecl(function_name, b.body), pos |-> b.pos]

l02_parse_function_decl(v, q) ==
    LET t1 == l02_next(v, q)
        t2 == l02_next(v, t1.pos)
        t3 == l02_next(v, t2.pos)
        t4 == l02_next(v, t3.pos)
    IN  IF t2.token = NoToken
        THEN [result |-> InvalidToken, decl |-> Nothing, pos |-> t2.pos]
        ELSE IF t2.token.kind # "Identifier"
        THEN [result |-> Err(<<"expect Identifier but got ", t2.token>>),
              decl |-> Nothing, pos |-> t2.pos]
        ELSE IF t3.token = NoToken
        THEN [result |-> InvalidToken, decl |-> Nothing, pos |-> t3.pos]
        ELSE IF ~IsSeperator(t3.token, "(")
        THEN [result |-> Err(<<"expect Seperator '(' but got ", t3.token>>),
              decl |-> Nothing, pos |-> t3.pos]
        ELSE IF t4.token = NoToken
        THEN [result |-> InvalidToken, decl |-> Nothing, pos |-> t4.pos]
        ELSE IF ~IsSeperator(t4.token, ")")
        THEN [result |-> Err(<<"expect Seperator ')' but got ", t4.token>>),
              decl |-> Nothing, pos |-> t4.pos]
        ELSE l02_DeclEnd(t2.token.text, l02_parse_function_body(v, t4.pos))

\* the loop of parse_prog, from the peeked token on
RECURSIVE l02_ProgLoop(_, _, _)
\* stmts.push(..?) on r, what parse_function_decl or parse_function_call
\* returned with the statement stmt
RECURSIVE l02_ProgPush(_, _, _, _)
l02_ProgPush(v, stmts, r, stmt) ==
    IF r.result # Ok THEN [result |-> r.result, stmts |-> <<>>]
    ELSE l02_ProgLoop(v, r.pos, Append(stmts, stmt))

l02_PushDecl(v, stmts, d) == l02_ProgPush(v, stmts, d, d.decl)
l02_PushCall(v, stmts, c) == l02_ProgPush(v, stmts, c, c.call)

l02_ProgLoop(v, q, stmts) ==
    LET token == l02_peek(v, q)
    IN  IF token = NoToken \/ token.kind = "EOF"
        THEN [result |-> Ok, stmts |-> stmts]
        ELSE IF token.kind = "Keyword" /\ token.text = Function
        THEN l02_PushDecl(v, stmts, l02_parse_function_decl(v, q))
        ELSE IF token.kind = "Identifier"
        THEN l02_PushCall(v, stmts, l02_parse_function_call(v, q))
        ELSE [result |-> Err(<<"unknown statement">>), stmts |-> <<>>]

l02_parse_prog(v) == l02_ProgLoop(v, 0, <<>>)

-----------------------------------------------------------------------------
(* The statements a parser pushes, up to MaxNodes nodes in a program *)

DeclNames == {"f", "g"}
Arguments == {<<>>, <<<<"a">>, <<"b", "c">>>>}
Calls ==
    {FunctionCall(n, <<>>) : n \in {"f", "g"}}
        \cup {FunctionCall("println", a) : a \in Arguments}

\* the nodes of a statement: the statement and the calls of its body
Nodes(x) == IF IsDecl(x) THEN 1 + Len(x.body) ELSE 1

RECURSIVE NodeCount(_)
NodeCount(stmts) ==
    IF stmts = <<>> THEN 0 ELSE Nodes(Head(stmts)) + NodeCount(Tail(stmts))

-----------------------------------------------------------------------------
(* The lexer at rest *)

\* no token vector and no parser yet
ParseIdle ==
    /\ tokens = <<>>
    /\ pos = 0
    /\ parsed = NotCalled
    /\ lookahead = [result |-> NotCalled, stmts |-> <<>>]

LexIdle ==
    /\ code = <<>>
    /\ stream = CharStream(<<>>)
    /\ eof = FALSE
    /\ emitted = <<>>
    /\ ret = NotCalled

-----------------------------------------------------------------------------
(* Resolving and running a parsed program *)

NoSnapshot == [stmts |-> <<>>, result |-> NotCalled]

\* parse_prog starts with no statement
Init ==
    /\ prog = <<>>
    /\ resolved = NotCalled
    /\ before = NoSnapshot
    /\ ran = NotCalled
    /\ stdout = <<>>
    /\ LexIdle
    /\ ParseIdle

Parsing == resolved = NotCalled /\ ran = NotCalled

\* stmts.push(Statement::FunctionCall(..))
PushFunctionCall ==
    /\ Parsing
    /\ NodeCount(prog) < MaxNodes
    /\ \E c \in Calls : prog' = Append(prog, c)
    /\ UNCHANGED <<resolved, before, ran, stdout>>
    /\ UNCHANGED lexVars
    /\ UNCHANGED parseVars

\* stmts.push(Statement::FunctionDecl(..))
PushFunctionDecl ==
    /\ Parsing
    /\ NodeCount(prog) < MaxNodes
    /\ \E n \in DeclNames, k \in 0..(MaxNodes - NodeCount(prog) - 1) :
        \E body \in [1..k -> Calls] :
            prog' = Append(prog, FunctionDecl(n, FunctionBody(body)))
    /\ UNCHANGED <<resolved, before, ran, stdout>>
    /\ UNCHANGED lexVars
    /\ UNCHANGED parseVars

\* RefResolver::resolve(&mut prog)
Resolve ==
    /\ ran = NotCalled
    /\ LET r == resolve(prog)
       IN  /\ prog' = r.stmts
           /\ resolved' = r.result
    /\ before' = [stmts |-> prog, result |-> resolved]
    /\ UNCHANGED <<ran, stdout>>
    /\ UNCHANGED lexVars
    /\ UNCHANGED parseVars

\* Interpreter::run(&prog)
Run ==
    /\ ran = NotCalled
    /\ LET r == run(prog)
       IN  /\ ran' = r.result
           /\ stdout' = r.out
    /\ UNCHANGED <<prog, resolved, before>>
    /\ UNCHANGED lexVars
    /\ UNCHANGED parseVars

Next == PushFunctionCall \/ PushFunctionDecl \/ Resolve \/ Run

Spec == Init /\ [][Next]_vars

\* the names of the declarations of a program that declares the built-in's name
ShadowingNames == {"println", "f"}

\* stmts.push(Statement::FunctionDecl(..)) of such a program
PushShadowingDecl ==
    /\ Parsing
    /\ NodeCount(prog) < MaxNodes
    /\ \E n \in ShadowingNames, k \in 0..(MaxNodes - NodeCount(prog) - 1) :
        \E body \in [1..k -> Calls] :
            prog' = Append(prog, FunctionDecl(n, FunctionBody(body)))
    /\ UNCHANGED <<resolved, before, ran, stdout>>
    /\ UNCHANGED lexVars
    /\ UNCHANGED parseVars

\* RefResolver::resolve(&mut prog) of the binary
MainResolve ==
    /\ ran = NotCalled
    /\ LET r == main_resolve(prog)
       IN  /\ prog' = r.stmts
           /\ resolved' = r.result
    /\ before' = [stmts |-> prog, result |-> resolved]
    /\ UNCHANGED <<ran, stdout>>
    /\ UNCHANGED lexVars
    /\ UNCHANGED parseVars

MainNext == PushFunctionCall \/ PushFunctionDecl \/ MainResolve \/ Run

MainSpec == Init /\ [][MainNext]_vars

ShadowingNext == PushFunctionCall \/ PushShadowingDecl \/ Resolve \/ Run

ShadowingSpec == Init /\ [][ShadowingNext]_vars

-----------------------------------------------------------------------------
(* Lexing a source text *)

\* the texts of n characters of an alphabet
Texts(alphabet, n) == [1..n -> alphabet]

ProgIdle ==
    /\ prog = <<>>
    /\ resolved = NotCalled
    /\ before = NoSnapshot
    /\ ran = NotCalled
    /\ stdout = <<>>

\* Tokenizer::new(code)
TokenizerNew(text) ==
    /\ code = text
    /\ stream = CharStream(text)
    /\ eof = FALSE
    /\ emitted = <<>>
    /\ ret = NotCalled
    /\ ProgIdle
    /\ ParseIdle

\* Iterator::next for Tokenizer: one call of next_token
NextToken ==
    /\ ret.tag # "Panic"
    /\ LET r == next_token(stream, eof)
       IN  /\ stream' = r.stream
           /\ eof' = r.eof
           /\ ret' = r.ret
           /\ emitted' = IF r.ret.tag = "Some" THEN Append(emitted, r.token)
                         ELSE emitted
    /\ UNCHANGED code
    /\ UNCHANGED progVars
    /\ UNCHANGED parseVars

LexNext == NextToken

MixedChars == {" ", Newline, "a", ";", "+", "/", "*", Quote}
LexInit ==
    \E k \in 0..MaxMixed : \E text \in Texts(MixedChars, k) : TokenizerNew(text)
\* the consumer calls next until it is handed None
LexSpec == LexInit /\ [][LexNext]_vars /\ WF_vars(NextToken)

OperatorChars == {"+", "-", "*", "/", "=", " ", "a"}
OperatorInit ==
    \E k \in 0..MaxText : \E text \in Texts(OperatorChars, k) : TokenizerNew(text)
OperatorSpec == OperatorInit /\ [][LexNext]_vars

CommentChars == {"/", "*", "a", Newline, "="}
CommentInit ==
    \E k \in 0..MaxComment : \E text \in Texts(CommentChars, k) : TokenizerNew(text)
CommentSpec == CommentInit /\ [][LexNext]_vars

LiteralChars == {Quote, Backslash, "n", Newline, "a"}
LiteralInit ==
    \E k \in 0..MaxLiteral : \E text \in Texts(LiteralChars, k) :
        TokenizerNew(<<Quote>> \o text)
LiteralSpec == LiteralInit /\ [][LexNext]_vars

IdentifierChars == {"a", "_", "1", " ", ";"}
IdentifierInit ==
    \E k \in 0..MaxIdent : \E text \in Texts(IdentifierChars, k) : TokenizerNew(text)
IdentifierSpec == IdentifierInit /\ [][LexNext]_vars

-----------------------------------------------------------------------------
(* The grammar in the header of l01/src/main.rs, with the ";" that the
   parsers ask for after a call, as a recogniser of token sequences:
     prog          = (functionDecl | functionCall)* ;
     functionDecl  : "function" Identifier "(" ")" functionBody ;
     functionBody  : '{' functionCall* '}' ;
     functionCall  : Identifier '(' parameterList? ')' ';' ;
     parameterList : StringLiteral (',' StringLiteral)* ;          *)

AtStatement(inBody) == [at |-> "statement", inBody |-> inBody]
Stuck == [at |-> "stuck", inBody |-> FALSE]

\* the place in the grammar after token t is read at place g
GrammarStep(g, t) ==
    LET to(at) == [at |-> at, inBody |-> g.inBody]
    IN  CASE g.at = "statement" ->
                IF t.kind = "Identifier" THEN to("call (")
                ELSE IF g.inBody /\ IsSeperator(t, "}") THEN AtStatement(FALSE)
                ELSE IF ~g.inBody /\ t.kind = "Keyword" /\ t.text = Function
                THEN to("decl name")
                ELSE Stuck
          [] g.at = "decl name" -> IF t.kind = "Identifier" THEN to("decl (") ELSE Stuck
          [] g.at = "decl (" -> IF IsSeperator(t, "(") THEN to("decl )") ELSE Stuck
          [] g.at = "decl )" -> IF IsSeperator(t, ")") THEN to("decl {") ELSE Stuck
          [] g.at = "decl {" -> IF IsSeperator(t, "{") THEN AtStatement(TRUE) ELSE Stuck
          [] g.at = "call (" -> IF IsSeperator(t, "(") THEN to("parameterList?") ELSE Stuck
          [] g.at = "parameterList?" ->
                IF t.kind = "StringLiteral" THEN to("parameter")
                ELSE IF IsSeperator(t, ")") THEN to("call ;")
                ELSE Stuck
          [] g.at = "parameter" ->
                IF IsSeperator(t, ",") THEN to("comma")
                ELSE IF IsSeperator(t, ")") THEN to("call ;")
                ELSE Stuck
          [] g.at = "comma" -> IF t.kind = "StringLiteral" THEN to("parameter") ELSE Stuck
          [] g.at = "call ;" -> IF IsSeperator(t, ";") THEN AtStatement(g.inBody) ELSE Stuck
          [] OTHER -> Stuck

\* the place in the grammar after all of ts is read from ts[i] on at place g
RECURSIVE GrammarRun(_, _, _)
GrammarRun(g, ts, i) ==
    IF i > Len(ts) \/ g = Stuck THEN g
    ELSE GrammarRun(GrammarStep(g, ts[i]), ts, i + 1)

\* ts begins a program of the grammar
Viable(ts) == GrammarRun(AtStatement(FALSE), ts, 1) # Stuck

\* ts is a program of the grammar
Derivable(ts) == GrammarRun(AtStatement(FALSE), ts, 1) = AtStatement(FALSE)

\* the number of tokens of ts after its longest prefix that begins a program
Junk(ts) ==
    Len(ts) - CHOOSE k \in 0..Len(ts) :
        /\ Viable(SubSeq(ts, 1, k))
        /\ \A j \in (k + 1)..Len(ts) : ~Viable(SubSeq(ts, 1, j))

-----------------------------------------------------------------------------
(* Parsing a token vector *)

ParserTokens ==
    {Token("Keyword", Function),
     Token("Identifier", <<"f">>),
     Token("StringLiteral", <<"a">>),
     Token("StringLiteral", <<"b">>),
     Token("Operator", <<"+">>)}
    \cup {Token("Seperator", <<c>>) : c \in Seperators}

\* the vector read_token builds, one token after the other: after a prefix
\* that begins no program there are at most MaxJunk more tokens
PushToken ==
    /\ ~Tokenized(tokens)
    /\ Len(tokens) < MaxTokens
    /\ Junk(tokens) < MaxJunk
    /\ \E t \in ParserTokens : tokens' = Append(tokens, t)
    /\ UNCHANGED <<pos, parsed, lookahead>>
    /\ UNCHANGED progVars
    /\ UNCHANGED lexVars

\* the EOF token that ends the vector; Tokenizer::new then returns a tokenizer
PushEOF ==
    /\ ~Tokenized(tokens)
    /\ tokens' = Append(tokens, EOFToken)
    /\ UNCHANGED <<pos, parsed, lookahead>>
    /\ UNCHANGED progVars
    /\ UNCHANGED lexVars

\* one round of the while loop of parse_prog of the backtracking parser
ParseProgLoop ==
    /\ Tokenized(tokens)
    /\ parsed = NotCalled
    /\ ~tokens_eof(tokens, pos)
    /\ LET r == ParseStatement(tokens, pos)
       IN  /\ pos' = r.pos
           /\ prog' = IF r.result = Ok THEN Append(prog, r.stmt) ELSE prog
           /\ parsed' = IF r.result = Ok THEN parsed ELSE r.result
    /\ UNCHANGED <<tokens, lookahead>>
    /\ UNCHANGED <<resolved, before, ran, stdout>>
    /\ UNCHANGED lexVars

\* the loop of parse_prog ends at the EOF token: Ok(Prog::new(stmts))
ParseProgReturn ==
    /\ Tokenized(tokens)
    /\ parsed = NotCalled
    /\ tokens_eof(tokens, pos)
    /\ parsed' = Ok
    /\ UNCHANGED <<tokens, pos, lookahead>>
    /\ UNCHANGED progVars
    /\ UNCHANGED lexVars

\* parse_prog of the lookahead parser on the same tokens
LookaheadParseProg ==
    /\ Tokenized(tokens)
    /\ lookahead.result = NotCalled
    /\ lookahead' = l02_parse_prog(tokens)
    /\ UNCHANGED <<tokens, pos, parsed>>
    /\ UNCHANGED progVars
    /\ UNCHANGED lexVars

ParserNext ==
    PushToken \/ PushEOF \/ ParseProgLoop \/ ParseProgReturn \/ LookaheadParseProg

ParserSpec == Init /\ [][ParserNext]_vars

-----------------------------------------------------------------------------
(* What the claims speak of *)

\* every call of the program, in the order pass 2 of resolve visits them
CallsInOrder(stmts) ==
    Concat([i \in 1..Len(stmts) |->
        IF IsDecl(stmts[i]) THEN stmts[i].body ELSE <<stmts[i]>>])

Range(s) == {s[i] : i \in 1..Len(s)}

DeclaredNames(stmts) == {stmts[i].name : i \in {j \in 1..Len(stmts) : IsDecl(stmts[j])}}

IsDeclOf(stmts, i, name) ==
    i \in 1..Len(stmts) /\ IsDecl(stmts[i]) /\ stmts[i].name = name

\* the place of the last declaration of a declared name
LastDeclOf(stmts, name) ==
    CHOOSE i \in 1..Len(stmts) :
        /\ IsDeclOf(stmts, i, name)
        /\ \A j \in (i + 1)..Len(stmts) : ~IsDeclOf(stmts, j, name)

IsUnknown(stmts, c) == c.name \notin DeclaredNames(stmts) /\ c.name # "println"

\* the calls no declaration and no built-in answers, in traversal order
UnknownCalls(stmts) ==
    LET all == CallsInOrder(stmts)
        F[k \in 0..Len(all)] ==
            IF k = 0 THEN <<>>
            ELSE IF IsUnknown(stmts, all[k]) THEN Append(F[k - 1], all[k])
            ELSE F[k - 1]
    IN  F[Len(all)]

TopLevelCalls(stmts) ==
    LET F[k \in 0..Len(stmts)] ==
            IF k = 0 THEN <<>>
            ELSE IF IsCall(stmts[k]) THEN Append(F[k - 1], stmts[k])
            ELSE F[k - 1]
    IN  F[Len(stmts)]

\* the arguments, each but the first preceded by one space
SpaceSeparated(parameters) ==
    Concat([i \in 1..Len(parameters) |->
        IF i = 1 THEN parameters[i] ELSE <<" ">> \o parameters[i]])

\* the lines of a list of pending calls: the first call is replaced by the
\* body it is bound to until it is a call of the built-in
RECURSIVE Expansion(_, _)
Expansion(stmts, pending) ==
    IF pending = <<>> THEN <<>>
    ELSE IF Head(pending).definition = NoDef
    THEN <<SpaceSeparated(Head(pending).parameters)>>
             \o Expansion(stmts, Tail(pending))
    ELSE Expansion(stmts, stmts[Head(pending).definition].body \o Tail(pending))

-----------------------------------------------------------------------------
(* Claims *)

\* C1: when run returns Ok on a resolved program, the output is one line per
\* println call met when the top-level calls are taken in source order and
\* every bound call is expanded depth-first, left to right, through the body
\* of its declaration; a line is the arguments separated by single spaces;
\* declarations by themselves write nothing.
C1_OutputIsExpansion ==
    (resolved = Ok /\ ran = Ok) =>
        stdout = Expansion(prog, TopLevelCalls(prog))

\* a bound top-level call ran and wrote two different lines, one of them empty
C1_Witness ==
    /\ resolved = Ok /\ ran = Ok
    /\ \E i \in 1..Len(prog) : IsCall(prog[i]) /\ prog[i].definition # NoDef
    /\ Len(stdout) >= 2
    /\ stdout[1] # stdout[2]
    /\ <<>> \in Range(stdout)

\* C2: when resolve returns Ok, every call, top-level or in a body, is bound
\* to a declaration of its own name, or is unbound and named println.
C2_BoundOrBuiltin ==
    resolved = Ok =>
        \A c \in Range(CallsInOrder(prog)) :
            \/ c.definition # NoDef /\ IsDeclOf(prog, c.definition, c.name)
            \/ c.definition = NoDef /\ c.name = "println"

\* resolve returned Ok with a bound call and an unbound println in a body
C2_Witness ==
    /\ resolved = Ok
    /\ \E i \in 1..Len(prog) :
        /\ IsDecl(prog[i])
        /\ \E c \in Range(prog[i].body) : c.definition # NoDef
        /\ \E c \in Range(prog[i].body) : c.definition = NoDef

\* C3: when resolve returns Ok, every call of a declared name is bound to the
\* last top-level declaration of that name, wherever the call stands.
C3_LastDeclarationWins ==
    resolved = Ok =>
        \A c \in Range(CallsInOrder(prog)) :
            c.name \in DeclaredNames(prog) =>
                c.definition = LastDeclOf(prog, c.name)

\* resolve returned Ok on a program with a call between two declarations of
\* its name
C3_Witness ==
    /\ resolved = Ok
    /\ \E i, j, k \in 1..Len(prog) :
        /\ i < j /\ j < k
        /\ IsCall(prog[j])
        /\ IsDeclOf(prog, i, prog[j].name)
        /\ IsDeclOf(prog, k, prog[j].name)

\* C4: resolve returns an error exactly when some call, top-level or in any
\* body, has a name that is neither declared nor println, and the error names
\* the first such call in traversal order.
C4_ErrorIffUnknownCall ==
    resolved # NotCalled =>
        /\ IsErr(resolved) <=> UnknownCalls(prog) # <<>>
        /\ IsErr(resolved) =>
            resolved.message = <<"unkown function ", UnknownCalls(prog)[1].name>>

\* resolve failed on an unknown call in the body of a declaration that no
\* call names, with a further unknown call after it
C4_Witness ==
    /\ IsErr(resolved)
    /\ Len(UnknownCalls(prog)) >= 2
    /\ \E i \in 1..Len(prog) :
        /\ IsDecl(prog[i])
        /\ UnknownCalls(prog)[1] \in Range(prog[i].body)
        /\ \A c \in Range(CallsInOrder(prog)) : c.name # prog[i].name

\* C5: a resolve that starts from a program a resolve returned Ok for returns
\* Ok again and leaves every binding as it was.
C5_ResolveIdempotent ==
    before.result = Ok => (resolved = Ok /\ prog = before.stmts)

\* resolve ran again on a successfully resolved program with a bound call
C5_Witness ==
    /\ before.result = Ok
    /\ \E c \in Range(CallsInOrder(before.stmts)) : c.definition # NoDef

\* the unread text after its leading whitespace
RECURSIVE TrimLeft(_)
TrimLeft(d) ==
    IF d # <<>> /\ is_whitespace(Head(d)) THEN TrimLeft(Tail(d)) ELSE d

Unread == TrimLeft(stream.data)

\* next_token is called and is not cut short by the flag or an earlier panic
Scanning == ~eof /\ ret.tag # "Panic"

Drop(d, n) == SubSeq(d, n + 1, Len(d))

EOFCount(ts) == Cardinality({i \in 1..Len(ts) : ts[i].kind = "EOF"})

\* C6: at most one EOF token is ever returned, the flag is set exactly when
\* the last token returned is it, and once the flag is set every later call
\* returns None and adds no token; every call before that consumes text,
\* returns the EOF token or panics, so there are finitely many tokens; and
\* with next_token called again and again the EOF token or a panic is reached.
C6_EndOfInputOnceAndSticky ==
    /\ [](/\ EOFCount(emitted) <= 1
          /\ eof <=> (emitted # <<>> /\ Last(emitted) = EOFToken)
          /\ Len(emitted) <= Len(code) + 1)
    /\ [][eof => (eof' /\ emitted' = emitted /\ ret'.tag = "None")]_vars
    /\ [][~eof => \/ Len(stream'.data) < Len(stream.data)
                  \/ eof'
                  \/ ret'.tag = "Panic"]_vars
    /\ <>(eof \/ ret.tag = "Panic")

\* a call after the EOF token, which followed two other tokens, returned None
C6_Witness ==
    /\ eof
    /\ ret.tag = "None"
    /\ Len(emitted) = 3
    /\ EOFCount(emitted) = 1

\* the longest operator that begins the text d
LongestOperator(d) ==
    IF Len(d) >= 2 /\ d[1] \in {"+", "-", "*"} /\ d[2] \in {d[1], "="}
    THEN <<d[1], d[2]>>
    ELSE IF Len(d) >= 2 /\ d[1] = "/" /\ d[2] = "="
    THEN <<d[1], d[2]>>
    ELSE <<d[1]>>

\* C7: when the next character is +, - or * (or the text goes on with /=),
\* the call returns the longest of op, op op, op= that begins the text as one
\* Operator token and leaves the stream after all the characters of it.
C7_LongestOperatorIsOneToken ==
    [][(/\ Scanning
        /\ Unread # <<>>
        /\ \/ Unread[1] \in {"+", "-", "*"}
           \/ Len(Unread) >= 2 /\ Unread[1] = "/" /\ Unread[2] = "=")
        => (/\ ret'.tag = "Some"
            /\ emitted' = Append(emitted, Token("Operator", LongestOperator(Unread)))
            /\ stream'.data = Drop(Unread, Len(LongestOperator(Unread))))]_vars

\* the places after the opening /* where a */ begins
CommentEnds(d) ==
    {k \in 3..(Len(d) - 1) : d[k] = "*" /\ d[k + 1] = "/"}

OpensComment(d) == Len(d) >= 2 /\ d[1] = "/" /\ d[2] = "*"

Min(S) == CHOOSE k \in S : \A j \in S : k <= j

\* the text after the comment that begins d
AfterComment(d) == Drop(d, Min(CommentEnds(d)) + 1)

\* C8: when the text goes on with a terminated block comment, the call does
\* what it would do on a space followed by the text after the comment: the
\* same token or failure, and the same text left unread.
C8_CommentIsWhitespace ==
    [][(Scanning /\ OpensComment(Unread) /\ CommentEnds(Unread) # {})
        => LET r == next_token(CharStream(<<" ">> \o AfterComment(Unread)), FALSE)
           IN  /\ ret'.tag = r.ret.tag
               /\ r.ret.tag = "Some" =>
                    /\ emitted' = Append(emitted, r.token)
                    /\ stream'.data = r.stream.data]_vars

\* the number of backslashes that stand in a row right before place k
RECURSIVE BackslashesBefore(_, _)
BackslashesBefore(d, k) ==
    IF k > 1 /\ d[k - 1] = Backslash THEN 1 + BackslashesBefore(d, k - 1) ELSE 0

\* place k is the second character of an escape
Escaped(d, k) == BackslashesBefore(d, k) % 2 = 1

\* the unescaped quotes after the opening one
ClosingQuotes(d) == {k \in 2..Len(d) : d[k] = Quote /\ ~Escaped(d, k)}

\* between the quotes: no unescaped newline, and only the escapes \n and \\
WellFormedLiteral(d, close) ==
    \A j \in 2..(close - 1) :
        /\ ~(d[j] = Newline /\ ~Escaped(d, j))
        /\ (d[j] = Backslash /\ ~Escaped(d, j)) => d[j + 1] \in {"n", Backslash}

\* the text between the quotes with \n read as a newline and \\ as a backslash
DecodedLiteral(d, close) ==
    Concat([j \in 1..(close - 2) |->
        IF Escaped(d, j + 1)
        THEN IF d[j + 1] = "n" THEN <<Newline>> ELSE <<Backslash>>
        ELSE IF d[j + 1] = Backslash THEN <<>>
        ELSE <<d[j + 1]>>])

UnterminatedCommentPanics ==
    [][(Scanning /\ OpensComment(Unread) /\ CommentEnds(Unread) = {})
        => (/\ ret'.tag = "Panic"
            /\ emitted' = emitted
            /\ ~eof')]_vars

\* the text after its leading whitespace and terminated block comments
RECURSIVE AfterComments(_)
AfterComments(d) ==
    LET t == TrimLeft(d)
    IN  IF OpensComment(t) /\ CommentEnds(t) # {}
        THEN AfterComments(AfterComment(t))
        ELSE t

\* C10: a source text in which, after whitespace and terminated comments, a
\* block comment is opened that no */ closes, never gets a token: neither the
\* EOF token nor any other.
C10_UnterminatedCommentIsFatal ==
    (/\ OpensComment(AfterComments(code))
     /\ CommentEnds(AfterComments(code)) = {})
        => (emitted = <<>> /\ ~eof)


\* the first character of an identifier by the rule [a-zA-Z_][a-zA-Z0-9_]*
IsIdentifierStart(c) == c = "_" \/ c \in Letters

\* the longest run of identifier characters that begins the text d
RECURSIVE IdentifierRun(_)
IdentifierRun(d) ==
    IF d # <<>> /\ (Head(d) = "_" \/ Head(d) \in Letters \cup Digits)
    THEN <<Head(d)>> \o IdentifierRun(Tail(d))
    ELSE <<>>

KeywordOrIdentifier(text) ==
    IF text = <<"f", "u", "n", "c", "t", "i", "o", "n">>
    THEN Token("Keyword", text) ELSE Token("Identifier", text)

\* C11: when the next character is a letter or an underscore, the call
\* returns the longest run of letters, digits and underscores that begins the
\* text as one token, a Keyword when the run is "function" and an Identifier
\* otherwise, and leaves the stream after the run.
C11_IdentifierRule ==
    [][(/\ Scanning
        /\ Unread # <<>>
        /\ IsIdentifierStart(Unread[1]))
        => (/\ ret'.tag = "Some"
            /\ emitted' = Append(emitted, KeywordOrIdentifier(IdentifierRun(Unread)))
            /\ stream'.data = Drop(Unread, Len(IdentifierRun(Unread))))]_vars

\* the same rule for the runs that begin with a letter, which the dispatch
\* of next_token on is_alphabetic does hand to parse_identifier
IdentifierAfterLetter ==
    [][(/\ Scanning
        /\ Unread # <<>>
        /\ Unread[1] \in Letters)
        => (/\ ret'.tag = "Some"
            /\ emitted' = Append(emitted, KeywordOrIdentifier(IdentifierRun(Unread)))
            /\ stream'.data = Drop(Unread, Len(IdentifierRun(Unread))))]_vars


\* the declarations the calls of a list are bound to
BoundTo(calls) == {calls[j].definition : j \in 1..Len(calls)} \ {NoDef}

\* the declarations reached through bindings from the declarations of S
RECURSIVE ReachedFrom(_, _)
ReachedFrom(stmts, S) ==
    LET T == S \cup UNION {BoundTo(stmts[d].body) : d \in S}
    IN  IF T = S THEN S ELSE ReachedFrom(stmts, T)

\* the declarations reached through bindings from a top-level call
Reached(stmts) == ReachedFrom(stmts, BoundTo(TopLevelCalls(stmts)))

\* a declaration whose body leads back to it
OnCycle(stmts, d) == d \in ReachedFrom(stmts, BoundTo(stmts[d].body))

\* function f(){ f(); } f();
ScenarioC ==
    <<FunctionDecl("f", FunctionBody(<<FunctionCall("f", <<>>)>>)),
      FunctionCall("f", <<>>)>>

\* the tokens of `function f(){ f(); } f();`
ScenarioCTokens ==
    LET f == Token("Identifier", <<"f">>)
        sep(c) == Token("Seperator", <<c>>)
    IN  <<Token("Keyword", Function), f, sep("("), sep(")"), sep("{"),
          f, sep("("), sep(")"), sep(";"), sep("}"),
          f, sep("("), sep(")"), sep(";"), EOFToken>>

\* both parsers return Ok on them, with the declaration of f, whose body is
\* one call of f, and the call of f (a name is the text of its token)
ScenarioCParses ==
    LET name == <<"f">>
        stmts == <<FunctionDecl(name, FunctionBody(<<FunctionCall(name, <<>>)>>)),
                   FunctionCall(name, <<>>)>>
        d == parse_function_decl(ScenarioCTokens, 0)
        c == parse_function_call(ScenarioCTokens, d.pos)
    IN  /\ l02_parse_prog(ScenarioCTokens) = [result |-> Ok, stmts |-> stmts]
        /\ d.result = Ok /\ d.decl = stmts[1]
        /\ c.result = Ok /\ c.call = stmts[2]
        /\ tokens_eof(ScenarioCTokens, c.pos)

\* C15: resolve succeeds on `function f(){ f(); } f();` and binds the call in
\* the body of f to f itself, and run on it does not return Ok; on every
\* resolved program run returns Ok exactly when no declaration reached
\* through bindings from a top-level call lies on a cycle of the bindings,
\* and it exhausts the stack otherwise.
C15_RecursionIsNotGuarded ==
    /\ (before.stmts = ScenarioC /\ before.result = NotCalled /\ resolved # NotCalled)
        => (/\ resolved = Ok
            /\ prog[1].body[1].definition = 1
            /\ prog[2].definition = 1
            /\ ran # Ok)
    /\ (resolved = Ok /\ ran # NotCalled)
        => (/\ ran = Ok <=> ~\E d \in Reached(prog) : OnCycle(prog, d)
            /\ ran # Ok => ran = StackOverflow)

\* run was called on the resolved `function f(){ f(); } f();`
C15_Witness ==
    /\ before.stmts = ScenarioC
    /\ resolved = Ok
    /\ ran = StackOverflow

\* run returned Ok on a resolved program with a recursive declaration that
\* no top-level call reaches
RecursiveButNotCalled ==
    /\ resolved = Ok
    /\ ran = Ok
    /\ TopLevelCalls(prog) # <<>>
    /\ \E d \in 1..Len(prog) : IsDecl(prog[d]) /\ OnCycle(prog, d)

\* C16: on a program on which resolve returned Ok, run does not return the
\* "Unknown function" error, whatever the depth of the call.
C16_NoUnknownFunctionAfterResolve ==
    resolved = Ok => ~IsErr(ran)

\* run returned Ok on a resolved program after a call three frames deep
C16_Witness ==
    /\ resolved = Ok
    /\ ran = Ok
    /\ \E i, j, k \in 1..Len(prog) :
        /\ IsCall(prog[i]) /\ prog[i].definition = j
        /\ k \in BoundTo(prog[j].body)
        /\ \E c \in Range(prog[k].body) : c.definition = NoDef

\* without a successful resolve the error is met
UnknownFunctionWhenUnresolved ==
    /\ resolved # Ok
    /\ IsErr(ran)


\* C18: when the program declares println and resolve returns Ok, every call
\* named println, at top level and in bodies, is bound to the last
\* declaration of println; run then executes the body of that declaration
\* for such a call and writes no line for it: as every call of such a
\* program is bound, nothing at all is written, and run returns Ok exactly
\* when the bodies so executed do not lead back to themselves.
C18_DeclaredPrintlnShadowsBuiltin ==
    ("println" \in DeclaredNames(prog) /\ resolved = Ok)
        => (/\ \A c \in Range(CallsInOrder(prog)) :
                c.name = "println" => c.definition = LastDeclOf(prog, "println")
            /\ ran # NotCalled
                => (/\ stdout = <<>>
                    /\ ran = Ok <=> ~\E d \in Reached(prog) : OnCycle(prog, d)))

\* run returned Ok on a program with two declarations of println and a
\* top-level call of println with arguments; the last declaration has a body
C18_Witness ==
    /\ resolved = Ok
    /\ ran = Ok
    /\ \E i, j, k \in 1..Len(prog) :
        /\ i < j
        /\ IsDeclOf(prog, i, "println")
        /\ IsDeclOf(prog, j, "println")
        /\ prog[j].body # <<>>
        /\ IsCall(prog[k])
        /\ prog[k].name = "println"
        /\ prog[k].parameters # <<>>
        /\ prog[k].definition = j


\* what the resolver of the library does with the program the resolver of
\* the binary was given
Library == resolve(before.stmts)

\* C19: on every program the resolver of the binary returns Ok exactly when
\* the resolver of the library does, and when both return Ok they leave the
\* same binding in every call, at top level and in the bodies.
C19_SinglePassEqualsTwoPass ==
    resolved # NotCalled
        => (/\ resolved = Ok <=> Library.result = Ok
            /\ resolved = Ok => prog = Library.stmts)

\* the binary accepts a program the library rejects: an unknown name in a body
MainAcceptsUnknownInBody ==
    /\ resolved = Ok
    /\ IsErr(Library.result)

\* the binary rejects a program the library accepts: a call before the
\* declaration it names
MainRejectsForwardCall ==
    /\ IsErr(resolved)
    /\ Library.result = Ok

\* both accept and the bindings differ
MainBindsOtherwise ==
    /\ resolved = Ok
    /\ Library.result = Ok
    /\ prog # Library.stmts

\* a program both accept, and run fails after the resolver of the binary
MainRunFailsAfterResolve ==
    /\ before.result = NotCalled
    /\ resolved = Ok
    /\ Library.result = Ok
    /\ IsErr(ran)


\* the tokens before the EOF token that ends the vector
Source == SubSeq(tokens, 1, Len(tokens) - 1)

\* C12: parse_prog, of the backtracking parser and of the lookahead parser,
\* returns Ok exactly when the tokens before the EOF token are a program of
\* the grammar, in which a comma of an argument list is followed by a
\* StringLiteral and a call ends with ";".
C12_ParserAcceptsExactlyTheGrammar ==
    /\ parsed # NotCalled => (parsed = Ok <=> Derivable(Source))
    /\ lookahead.result # NotCalled => (lookahead.result = Ok <=> Derivable(Source))

\* the grammar, but a comma of an argument list may be followed by ")"
RECURSIVE LenientRun(_, _, _)
LenientRun(g, ts, i) ==
    IF i > Len(ts) \/ g = Stuck THEN g
    ELSE IF g.at = "comma" /\ IsSeperator(ts[i], ")")
    THEN LenientRun([at |-> "call ;", inBody |-> g.inBody], ts, i + 1)
    ELSE LenientRun(GrammarStep(g, ts[i]), ts, i + 1)

\* what the parsers do accept: the grammar with that trailing comma
ParserAcceptsTrailingComma ==
    /\ parsed # NotCalled
        => (parsed = Ok <=> LenientRun(AtStatement(FALSE), Source, 1) = AtStatement(FALSE))
    /\ lookahead.result # NotCalled
        => (lookahead.result = Ok
                <=> LenientRun(AtStatement(FALSE), Source, 1) = AtStatement(FALSE))

\* both parsers returned Ok on a call whose argument list ends with a comma
TrailingCommaAccepted ==
    /\ parsed = Ok
    /\ lookahead.result = Ok
    /\ ~Derivable(Source)

\* C13: on every token vector that ends with its only EOF token the
\* backtracking parser returns Ok exactly when the lookahead parser does, and
\* then both have built the same statements: same order, names, bodies and
\* arguments.
C13_ParsersAgree ==
    (parsed # NotCalled /\ lookahead.result # NotCalled)
        => (/\ parsed = Ok <=> lookahead.result = Ok
            /\ parsed = Ok => prog = lookahead.stmts)

\* both parsers returned Ok on a declaration with a call in its body
C13_Witness ==
    /\ parsed = Ok
    /\ lookahead.result = Ok
    /\ \E d \in 1..Len(prog) : IsDecl(prog[d]) /\ prog[d].body # <<>>

\* both parsers returned Ok on a call with two arguments
BothAcceptArguments ==
    /\ parsed = Ok
    /\ lookahead.result = Ok
    /\ \E c \in 1..Len(prog) : IsCall(prog[c]) /\ Len(prog[c].parameters) = 2

\* both parsers rejected a vector
BothReject ==
    /\ parsed.tag = "Fatal"
    /\ lookahead.result.tag = "Err"

\* C14: parse_prog of the backtracking parser returns Ok or Fatal and not
\* TryNext, whatever round of its loop ends it; parse_function_body returns
\* Ok or a message and not TryNext from any place of the vector, and the only
\* TryNext parse_function_decl returns is its own, for a first token that is
\* not the keyword.
C14_TryNextDoesNotEscape ==
    /\ parsed.tag \in {"NotCalled", "Ok", "Fatal"}
    /\ Tokenized(tokens)
        => \A p \in 0..Len(tokens) :
            /\ ParseStatement(tokens, p).result.tag \in {"Ok", "Fatal"}
            /\ parse_function_body(tokens, p).result.tag \in {"Ok", "Err"}
            /\ parse_function_decl(tokens, p).result = TryNext
                => ~(/\ next(tokens, p).token.kind = "Keyword"
                     /\ next(tokens, p).token.text = Function)

\* after a declaration, whose body loop ended on the TryNext of
\* parse_function_call, both attempts of a round answered TryNext
C14_Witness ==
    /\ parsed = Fatal(<<"unknown statement">>)
    /\ prog # <<>>
    /\ IsDecl(prog[1])
    /\ parse_function_decl(tokens, pos).result = TryNext
    /\ parse_function_call(tokens, pos).result = TryNext

\* the token after the longest prefix of the vector the parsers can go on from
Offending(ts) ==
    ts[1 + CHOOSE k \in 0..(Len(ts) - 1) :
        /\ LenientRun(AtStatement(FALSE), SubSeq(ts, 1, k), 1) # Stuck
        /\ LenientRun(AtStatement(FALSE), SubSeq(ts, 1, k + 1), 1) = Stuck]

NamesToken(result) == result.tag = "Err" /\ Len(result.message) = 2

\* C17: when the lookahead parser returns an error that names a token, the
\* token named is the one found where the vector stops being a program, also
\* when parse_function_body peeks a token that is neither an Identifier nor
\* "}".
C17_ErrorNamesTokenFound ==
    NamesToken(lookahead.result)
        => lookahead.result.message[2] = Offending(tokens)

\* the same for every error but the one parse_function_body raises on a peek
ErrorsButBodyNameTokenFound ==
    (/\ NamesToken(lookahead.result)
     /\ lookahead.result.message[1] # "expect Seperator '}' but got ")
        => lookahead.result.message[2] = Offending(tokens)

\* C20: the cursor is within 0..tokens.len() in every state and after every
\* next, from any place of the vector; next at the end returns the final EOF
\* token and leaves the cursor; trace_back moves the cursor only to a place
\* not after it; parse_function_decl and parse_function_call leave the cursor
\* where it was when they return TryNext; and a round of parse_prog that
\* pushes a statement moves the cursor forward.
C20_TokenCursor ==
    /\ [](pos \in 0..Len(tokens))
    /\ [](Tokenized(tokens)
            => \A p \in 0..Len(tokens) :
                /\ next(tokens, p).pos \in p..Len(tokens)
                /\ p = Len(tokens)
                    => next(tokens, p) = [token |-> EOFToken, pos |-> p]
                /\ \A q \in 0..(Len(tokens) + 1) :
                    trace_back(p, q) # p => (q <= p /\ trace_back(p, q) = q)
                /\ parse_function_decl(tokens, p).pos \in 0..Len(tokens)
                /\ parse_function_call(tokens, p).pos \in 0..Len(tokens)
                /\ parse_function_decl(tokens, p).result = TryNext
                    => parse_function_decl(tokens, p).pos = p
                /\ parse_function_call(tokens, p).result = TryNext
                    => parse_function_call(tokens, p).pos = p)
    /\ [][Len(prog') > Len(prog) => pos' > pos]_vars

\* parse_prog returned Ok at the EOF token after a declaration, in whose
\* body parse_function_call answered TryNext, and a call, before which
\* parse_function_decl answered TryNext
C20_Witness ==
    /\ parsed = Ok
    /\ pos = Len(tokens) - 1
    /\ \E d, c \in 1..Len(prog) : IsDecl(prog[d]) /\ IsCall(prog[c])
    /\ \E p \in 1..pos :
        /\ parse_function_call(tokens, p).result = TryNext
        /\ parse_function_decl(tokens, p).result = TryNext


=============================================================================
